---- MODULE Spec2Model ----
(***************************************************************************)
(* Model of the load-generation engine of src/main.py:                     *)
(*   fetch_with_metrics          one request, turned into a result record  *)
(*   run_load_test               the shared connector, the fan-out, gather *)
(*   run_stress_test             the caller: times the run, reports errors *)
(*   process_and_display_results the aggregator                            *)
(*                                                                         *)
(* The coroutines of one run are indistinguishable (same url, timeout and  *)
(* delay), so the tasks in flight and the resolved executions are kept as  *)
(* bags of records.  Times are integers: milliseconds for response times   *)
(* and the delay, seconds for the timeout and the run's wall-clock time.   *)
(* Quotients of the statistics module are kept as exact fractions.         *)
(***************************************************************************)
EXTENDS Integers, Sequences, FiniteSets, Bags, TLC

VARIABLES
    pc,              \* position of run_stress_test / run_load_test
    config,          \* arguments of run_stress_test, and the form's checkbox
    target,          \* what the network and target server may do to a request
    tasks,           \* bag of the coroutines in flight (gather's children)
    done,            \* bag of the resolved executions, as gather collects them
    results,         \* `results` of run_stress_test (line 186)
    total_duration,  \* end_time - start_time of run_stress_test (line 193)
    summary,         \* what process_and_display_results displays
    errors,          \* number of "Test failed" reports of line 196
    calls            \* number of calls of process_and_display_results

vars == <<pc, config, target, tasks, done, results, total_duration, summary,
          errors, calls>>

----------------------------------------------------------------------------
(* Bounds of the model *)

MaxUsers == 2
MaxReqs == 2
MaxElapsed == 1
PoolUsers == 51
PoolReqs == 2
MaxCount == 2
QuantCount == 50
InsightCount == 1

(* Program constants *)

ConnectorLimit == 100
MinTimeout == 1
DefaultTimeout == 10
MinDelay == 0
DefaultDelay == 100
MsPerSecond == 1000

----------------------------------------------------------------------------
(* Values *)

None == <<>>
Some(x) == <<x>>

Rat(n, d) == [num |-> n, den |-> d]

HttpStatus(code) == [kind |-> "http", code |-> code]
TimeoutStatus == [kind |-> "timeout", code |-> 0]
ErrorStatus == [kind |-> "error", code |-> 0]

\* an entry of the list gather returns: a dict of fetch_with_metrics, or
\* (return_exceptions=True) the exception object a child raised
Entry(isdict, status, response_time, success, error) ==
    [isdict |-> isdict, status |-> status, response_time |-> response_time,
     success |-> success, error |-> error]

ExceptionEntry(msg) == Entry(FALSE, ErrorStatus, None, FALSE, msg)

----------------------------------------------------------------------------
(* The environment: what can happen to one request *)

ErrorCauses == {"dns", "refused", "malformed"}
Statuses == {200, 500}
ResponseMs == {50}

\* net: "response" (the target answers with `status` after `dur` ms),
\* "redirect" (the target answers 302 and the redirect's target answers with
\* `status`, `dur` ms in all), "timeout", or a cause of ErrorCauses
Behaviour(net, status, dur) == [net |-> net, status |-> status, dur |-> dur]

Behaviours ==
    {Behaviour(n, s, d) : n \in {"response", "redirect"}, s \in Statuses, d \in ResponseMs}
    \cup {Behaviour(n, 0, 0) : n \in {"timeout"} \cup ErrorCauses}

----------------------------------------------------------------------------
(* Helpers on bags *)

CopiesOf(x, n) == IF n = 0 THEN EmptyBag ELSE [y \in {x} |-> n]

RECURSIVE SumCopies(_, _)
\* number of elements of bag B that lie in the set S
SumCopies(B, S) ==
    IF S = {} THEN 0
    ELSE LET x == CHOOSE y \in S : TRUE
         IN  CopiesIn(x, B) + SumCopies(B, S \ {x})

\* the sub-bag of B of its elements that lie in the set S
Restrict(B, S) == [x \in S \cap BagToSet(B) |-> CopiesIn(x, B)]

----------------------------------------------------------------------------
(* fetch_with_metrics *)

\* a coroutine in flight.  pc: "sleeping" (line 145), "waiting" (inside
\* session.get, no connection yet), "holding" (inside session.get or
\* response.text, owning a connection of the connector).  elapsed: what
\* time.perf_counter() - start_time reads, in ms
Task(p, e) == [pc |-> p, elapsed |-> e]

\* lines 141-147: start_time is read first; then the coroutine sleeps when
\* delay > 0, and otherwise calls session.get at once
StartTask(delay) ==
    IF delay > 0 THEN Task("sleeping", 0) ELSE Task("waiting", 0)

\* line 145 returns after delay ms; the coroutine then calls session.get
AfterSleep(t, delay) == Task("waiting", t.elapsed + delay)

\* line 147 passes no allow_redirects, so the session follows redirects
AllowRedirects == TRUE

\* lines 149-157
ResponseResult(response_time, status) ==
    Entry(TRUE, HttpStatus(status), Some(response_time),
          200 <= status /\ status < 300, "")

\* the conversion of line 159 left out
TimeoutResultNoConversion(timeout) ==
    Entry(TRUE, TimeoutStatus, Some(timeout), FALSE, "Timeout")

\* lines 158-159
TimeoutResult(timeout) ==
    Entry(TRUE, TimeoutStatus, Some(timeout * MsPerSecond), FALSE, "Timeout")

\* the handler of lines 160-161 left out: the exception leaves the coroutine
ErrorResultRaised(cause) == ExceptionEntry(cause)

\* lines 160-161; str(e) is modelled by the name of the cause
ErrorResult(cause) ==
    Entry(TRUE, ErrorStatus, None, FALSE, cause)

\* what fetch_with_metrics returns when behaviour b befalls task t
fetch_with_metrics(t, timeout, b) ==
    IF b.net = "timeout" THEN TimeoutResult(timeout)
    ELSE IF b.net \in ErrorCauses THEN ErrorResult(b.net)
    ELSE IF b.net = "redirect" /\ ~AllowRedirects
         THEN ResponseResult(t.elapsed + b.dur, 302)
    ELSE ResponseResult(t.elapsed + b.dur, b.status)

\* a resolved execution: the entry gather holds for it, with what befell it
Resolved(b, res) == [net |-> b.net, status |-> b.status, dur |-> b.dur, res |-> res]

----------------------------------------------------------------------------
(* run_load_test *)

\* one coroutine per user only
TotalTasksPerUser(concurrent_users, requests_per_user) == concurrent_users

\* line 169: range(concurrent_users * requests_per_user)
TotalTasks(concurrent_users, requests_per_user) ==
    concurrent_users * requests_per_user

Holding == SumCopies(tasks, {t \in BagToSet(tasks) : t.pc = "holding"})
Waiting == SumCopies(tasks, {t \in BagToSet(tasks) : t.pc = "waiting"})

\* a connector without a limit (limit=0)
ConnectorUnlimited == TRUE

\* TCPConnector(limit=100), line 167: a connection is handed out only while
\* fewer than `limit` are in use
ConnectorHasRoom == Holding < ConnectorLimit

\* waiting for the first child only (return_when=FIRST_COMPLETED)
GatherFirstCompleted == done # EmptyBag

\* line 172: gather resumes its caller when every child has finished
GatherComplete == tasks = EmptyBag

\* the list gather returns, as a bag
GatherResult(d) ==
    LET S == {x.res : x \in BagToSet(d)}
    IN  [r \in S |-> SumCopies(d, {x \in BagToSet(d) : x.res = r})]

----------------------------------------------------------------------------
(* The statistics module, on a sorted sample (its functions sort their
   argument, or do not depend on its order) *)

Repeat(x, n) == [i \in 1..n |-> x]

MinOf(S) == CHOOSE x \in S : \A y \in S : x <= y

RECURSIVE SortedSample(_)
\* the sorted list of the elements of a bag of integers
SortedSample(B) ==
    IF BagToSet(B) = {} THEN <<>>
    ELSE LET m == MinOf(BagToSet(B))
             rest == [x \in BagToSet(B) \ {m} |-> CopiesIn(x, B)]
         IN  Repeat(m, CopiesIn(m, B)) \o SortedSample(rest)

RECURSIVE SumValues(_, _)
\* the sum of the elements of xs whose value lies in S
SumValues(xs, S) ==
    IF S = {} THEN 0
    ELSE LET v == CHOOSE y \in S : TRUE
         IN  v * Cardinality({i \in DOMAIN xs : xs[i] = v})
             + SumValues(xs, S \ {v})

SumSeq(xs) == SumValues(xs, {xs[i] : i \in DOMAIN xs})

\* statistics.mean raises StatisticsError on an empty sample
MeanRaises(xs) == Len(xs) = 0
Mean(xs) == Rat(SumSeq(xs), Len(xs))

\* statistics.median raises StatisticsError on an empty sample
MedianRaises(xs) == Len(xs) = 0
Median(xs) ==
    LET n == Len(xs)
    IN  IF n % 2 = 1 THEN Rat(xs[(n \div 2) + 1], 1)
        ELSE Rat(xs[n \div 2] + xs[(n \div 2) + 1], 2)

\* statistics.quantiles raises StatisticsError on fewer than two data points
QuantilesRaises(xs) == Len(xs) < 2
\* statistics.quantiles(xs, n=100)[i - 1], the default (exclusive) method
Quantile(xs, i) ==
    LET ld == Len(xs)
        m == ld + 1
        j0 == (i * m) \div 100
        j == IF j0 < 1 THEN 1 ELSE IF j0 > ld - 1 THEN ld - 1 ELSE j0
        delta == i * m - j * 100
    IN  Rat(xs[j] * (100 - delta) + xs[j + 1] * delta, 100)

----------------------------------------------------------------------------
(* process_and_display_results *)

\* line 204
IsValid(r) == r.isdict /\ r.response_time # None

valid_results(res) == Restrict(res, {r \in BagToSet(res) : IsValid(r)})
successful_results(res) ==
    Restrict(valid_results(res), {r \in BagToSet(res) : r.success})

\* the guard of line 207 applied to `results` instead of `valid_results`
NoResultsAtAll(res) == BagCardinality(res) = 0

\* line 207: `if not valid_results: return`
NoValidResults(res) == BagCardinality(valid_results(res)) = 0

\* line 212, sorted
response_times(res) ==
    LET v == valid_results(res)
        S == {r.response_time[1] : r \in BagToSet(v)}
    IN  SortedSample([x \in S |->
            SumCopies(v, {r \in BagToSet(v) : r.response_time[1] = x})])

\* the rate taken over the valid results only
total_valid(res) == BagCardinality(valid_results(res))

\* line 214
total_requests(res) == BagCardinality(res)

\* line 215
success_rate(success_count, total) ==
    IF total > 0 THEN Rat(success_count * 100, total)
    ELSE Rat(0, 1)

\* line 246
throughput(total, duration) ==
    IF duration > 0 THEN Rat(total, duration) ELSE Rat(0, 1)

\* lines 262, 263
p95(xs) == IF Len(xs) >= 20 THEN Quantile(xs, 95) ELSE Rat(xs[Len(xs)], 1)
p99(xs) == IF Len(xs) >= 50 THEN Quantile(xs, 99) ELSE Rat(xs[Len(xs)], 1)

\* lines 282-285
status_counts(res) ==
    LET v == valid_results(res)
        S == {r.status : r \in BagToSet(v)}
    IN  [s \in S |-> SumCopies(v, {r \in BagToSet(v) : r.status = s})]

\* lines 376-381
SuccessInsight(rate) ==
    IF rate.num < 95 * rate.den THEN "low"
    ELSE IF rate.num < 99 * rate.den THEN "moderate"
    ELSE "excellent"

\* the thresholds of lines 385-389 compared with >= instead of >
LatencyInsightInclusive(avg) ==
    IF avg.num >= 3000 * avg.den THEN "very slow"
    ELSE IF avg.num >= 1000 * avg.den THEN "slow"
    ELSE IF avg.num >= 500 * avg.den THEN "moderate"
    ELSE "fast"

\* lines 385-392
LatencyInsight(avg) ==
    IF avg.num > 3000 * avg.den THEN "very slow"
    ELSE IF avg.num > 1000 * avg.den THEN "slow"
    ELSE IF avg.num > 500 * avg.den THEN "moderate"
    ELSE "fast"

NoSummary == [kind |-> "none", stats |-> None]
\* lines 207-209
NoData == [kind |-> "nodata", stats |-> None]

\* lines 211-392: the figures displayed
Statistics(res, duration) ==
    LET xs == response_times(res)
        success_count == BagCardinality(successful_results(res))
        rate == success_rate(success_count, total_requests(res))
    IN  [total_requests |-> total_requests(res),
         success_count |-> success_count,
         success_rate |-> rate,
         avg_response_time |-> IF xs # <<>> THEN Mean(xs) ELSE Rat(0, 1),
         throughput |-> throughput(total_requests(res), duration),
         percentiles |-> IF xs # <<>>
                         THEN Some([min |-> xs[1], p50 |-> Median(xs),
                                    p95 |-> p95(xs), p99 |-> p99(xs),
                                    max |-> xs[Len(xs)]])
                         ELSE None,
         status_counts |-> IF xs # <<>> THEN Some(status_counts(res)) ELSE None,
         success_insight |-> SuccessInsight(rate),
         latency_insight |-> IF xs # <<>> THEN Some(LatencyInsight(Mean(xs)))
                             ELSE None]

\* lines 200-392
process_and_display_results(res, duration) ==
    IF NoValidResults(res) THEN NoData
    ELSE [kind |-> "stats", stats |-> Some(Statistics(res, duration))]

\* whether a statement of process_and_display_results raises, each under the
\* condition the code evaluates it under
AggregatorRaises(res, duration) ==
    LET xs == response_times(res)
    IN  /\ ~NoValidResults(res)
        /\ \/ xs # <<>> /\ MeanRaises(xs)                          \* line 230
           \/ xs # <<>> /\ MedianRaises(xs)                        \* line 261
           \/ xs # <<>> /\ Len(xs) >= 20 /\ QuantilesRaises(xs)    \* line 262
           \/ xs # <<>> /\ Len(xs) >= 50 /\ QuantilesRaises(xs)    \* line 263

----------------------------------------------------------------------------
(* The run: run_stress_test calling run_load_test, then the aggregator *)

Config(cu, rpu, timeout, delay, follow) ==
    [concurrent_users |-> cu, requests_per_user |-> rpu, timeout |-> timeout,
     delay |-> delay, follow_redirects |-> follow]

\* the values the form of stress_test_tab (lines 99-115) can pass on
Configs ==
    {Config(cu, rpu, t, d, f) :
        cu \in 1..MaxUsers, rpu \in 1..MaxReqs,
        t \in {MinTimeout, DefaultTimeout}, d \in {MinDelay, DefaultDelay},
        f \in BOOLEAN}

Idle ==
    /\ pc = "ready"
    /\ tasks = EmptyBag
    /\ done = EmptyBag
    /\ results = EmptyBag
    /\ total_duration = 0
    /\ summary = NoSummary
    /\ errors = 0
    /\ calls = 0

\* the button of line 133 was pressed with a valid url
Init ==
    /\ config \in Configs
    /\ target = Behaviours
    /\ Idle

\* the aggregator called from a `finally` instead of after the run
SetupFailsThenAggregates ==
    /\ pc = "ready"
    /\ pc' = "failed"
    /\ errors' = errors + 1
    /\ calls' = calls + 1
    /\ summary' = process_and_display_results(results, 0)
    /\ UNCHANGED <<config, target, tasks, done, results, total_duration>>

\* lines 167-168 raise: the exception leaves run_load_test and asyncio.run
\* (line 186) and is reported once by the handler of lines 195-198
SetupFails ==
    /\ pc = "ready"
    /\ pc' = "failed"
    /\ errors' = errors + 1
    /\ UNCHANGED <<config, target, tasks, done, results, total_duration,
                   summary, calls>>

\* lines 167-172: connector and session are built, the coroutines are
\* created and gather schedules them; each runs to its first suspension
\* before any I/O completes
Dispatch ==
    /\ pc = "ready"
    /\ tasks' = CopiesOf(StartTask(config.delay),
                         TotalTasks(config.concurrent_users,
                                    config.requests_per_user))
    /\ pc' = "gathering"
    /\ UNCHANGED <<config, target, done, results, total_duration, summary,
                   errors, calls>>

\* line 145: asyncio.sleep returns; the coroutine calls session.get
Wake ==
    \E t \in BagToSet(tasks) :
        /\ t.pc = "sleeping"
        /\ tasks' = (tasks (-) SetToBag({t}))
                    (+) SetToBag({AfterSleep(t, config.delay)})
        /\ UNCHANGED <<pc, config, target, done, results, total_duration,
                       summary, errors, calls>>

\* line 147: the connector hands a connection to a waiting request
Acquire ==
    \E t \in BagToSet(tasks) :
        /\ t.pc = "waiting"
        /\ ConnectorHasRoom
        /\ tasks' = (tasks (-) SetToBag({t}))
                    (+) SetToBag({Task("holding", t.elapsed)})
        /\ UNCHANGED <<pc, config, target, done, results, total_duration,
                       summary, errors, calls>>

\* lines 147-161: session.get / response.text completes or raises, and
\* fetch_with_metrics returns; the connection goes back to the connector.
\* The timeout (total=timeout) also runs while the request waits for a
\* connection; every other outcome needs one
Resolve ==
    \E t \in BagToSet(tasks), b \in target :
        /\ t.pc \in {"waiting", "holding"}
        /\ t.pc = "waiting" => b.net = "timeout"
        /\ b.net \in {"response", "redirect"}
              => b.dur < config.timeout * MsPerSecond
        /\ tasks' = tasks (-) SetToBag({t})
        /\ done' = done (+) SetToBag({Resolved(b,
                        fetch_with_metrics(t, config.timeout, b))})
        /\ UNCHANGED <<pc, config, target, results, total_duration, summary,
                       errors, calls>>

\* line 172 returns the list; lines 186-187 bind it and read end_time
GatherReturn ==
    /\ pc = "gathering"
    /\ GatherComplete
    /\ results' = GatherResult(done)
    /\ \E d \in 0..MaxElapsed : total_duration' = d
    /\ pc' = "returned"
    /\ UNCHANGED <<config, target, tasks, done, summary, errors, calls>>

\* line 193, and the handler of lines 195-198 when the aggregator raises
Aggregate ==
    /\ pc = "returned"
    /\ calls' = calls + 1
    /\ IF AggregatorRaises(results, total_duration)
       THEN /\ pc' = "failed"
            /\ errors' = errors + 1
            /\ UNCHANGED summary
       ELSE /\ pc' = "displayed"
            /\ summary' = process_and_display_results(results, total_duration)
            /\ UNCHANGED errors
    /\ UNCHANGED <<config, target, tasks, done, results, total_duration>>

Next ==
    \/ SetupFails
    \/ Dispatch
    \/ Wake
    \/ Acquire
    \/ Resolve
    \/ GatherReturn
    \/ Aggregate

Spec == Init /\ [][Next]_vars

----------------------------------------------------------------------------
(* A run with more requests than the connector has connections, against a
   target that answers or lets the request time out *)

PoolTarget == {Behaviour("response", 200, 50), Behaviour("timeout", 0, 0)}

InitPool ==
    /\ config = Config(PoolUsers, PoolReqs, DefaultTimeout, MinDelay, TRUE)
    /\ target = PoolTarget
    /\ Idle

\* delay = 0: no coroutine sleeps
NextPool ==
    \/ SetupFails
    \/ Dispatch
    \/ Acquire
    \/ Resolve
    \/ GatherReturn
    \/ Aggregate

SpecPool == InitPool /\ [][NextPool]_vars

----------------------------------------------------------------------------
(* The aggregator as a function: applied to any list gather can return *)

AggEntries ==
    {ResponseResult(50, 200), ResponseResult(DefaultDelay + 50, 200),
     ResponseResult(50, 500), TimeoutResult(MinTimeout), ErrorResult("dns"),
     ExceptionEntry("CancelledError")}

AggInputs ==
    {[e \in {x \in AggEntries : f[x] > 0} |-> f[e]] :
        f \in [AggEntries -> 0..MaxCount]}

InitAgg ==
    /\ config = Config(1, 1, MinTimeout, MinDelay, TRUE)
    /\ target = Behaviours
    /\ pc = "returned"
    /\ tasks = EmptyBag
    /\ done = EmptyBag
    /\ results \in AggInputs
    /\ total_duration \in 0..MaxElapsed
    /\ summary = NoSummary
    /\ errors = 0
    /\ calls = 0

NextAgg == Aggregate

SpecAgg == InitAgg /\ [][NextAgg]_vars

----------------------------------------------------------------------------
(* The aggregator applied to latency samples of every size up to
   2 * QuantCount + 1: answered requests of two response times, and at most
   one timed-out request *)

AggregatorCalled(inputs) ==
    /\ config = Config(1, 1, MinTimeout, MinDelay, TRUE)
    /\ target = Behaviours
    /\ pc = "returned"
    /\ tasks = EmptyBag
    /\ done = EmptyBag
    /\ results \in inputs
    /\ total_duration \in 0..MaxElapsed
    /\ summary = NoSummary
    /\ errors = 0
    /\ calls = 0

QuantInputs ==
    {CopiesOf(ResponseResult(50, 200), a)
        (+) CopiesOf(ResponseResult(DefaultDelay + 50, 200), b)
        (+) CopiesOf(TimeoutResult(MinTimeout), c) :
        a \in 0..QuantCount, b \in 0..QuantCount, c \in 0..1}

InitQuant == AggregatorCalled(QuantInputs)

SpecQuant == InitQuant /\ [][NextAgg]_vars

----------------------------------------------------------------------------
(* The aggregator applied to samples whose mean lies on, just below and
   just above the thresholds of the latency insight *)

InsightTimes == {499, 500, 501, 1000, 1001, 3000, 3001}

InsightInputs ==
    {[e \in {ResponseResult(x, 200) : x \in {y \in InsightTimes : f[y] > 0}}
        |-> f[e.response_time[1]]] :
        f \in [InsightTimes -> 0..InsightCount]}

InitInsight == AggregatorCalled(InsightInputs)

SpecInsight == InitInsight /\ [][NextAgg]_vars

----------------------------------------------------------------------------
(* Claims *)

Total == config.concurrent_users * config.requests_per_user
Returned == pc \in {"returned", "displayed"}
Answered(d) == d.net \in {"response", "redirect"}

\* C1: when run_load_test has returned, the result collection holds exactly
\* concurrent_users * requests_per_user entries, one for each dispatched
\* execution: each entry occurs as often as executions resolved to it
C1_ResultCount ==
    Returned =>
        /\ BagCardinality(results) = Total
        /\ BagCardinality(done) = Total
        /\ \A r \in BagToSet(results) :
               CopiesIn(r, results)
                   = SumCopies(done, {d \in BagToSet(done) : d.res = r})

C1_Witness ==
    /\ pc = "returned"
    /\ config.concurrent_users = 2 /\ config.requests_per_user = 2
    /\ BagCardinality(results) = 4
    /\ \E a, b, c \in BagToSet(done) :
           Answered(a) /\ b.net = "timeout" /\ c.net \in ErrorCauses

\* C2: run_load_test returns, and process_and_display_results is called,
\* only when no dispatched execution is still in flight; while executions
\* are in flight the caller holds no results and nothing is displayed
C2_JointAwait ==
    /\ (Returned \/ calls > 0) => tasks = EmptyBag
    /\ tasks # EmptyBag =>
           results = EmptyBag /\ summary = NoSummary /\ calls = 0

C2_Witness ==
    /\ pc = "displayed"
    /\ calls = 1
    /\ BagCardinality(done) = 4
    /\ summary.kind = "stats"

\* C3: every execution resolves to a result record whatever befalls it, no
\* exception object is collected, and a run that dispatched its executions
\* never ends in the caller's exception handler: with failing requests in
\* it, the batch still collects every execution
C3_NeverRaises ==
    /\ \A d \in BagToSet(done) : d.res.isdict
    /\ pc = "failed" => done = EmptyBag /\ tasks = EmptyBag
    /\ Returned => \A r \in BagToSet(results) : r.isdict

C3_Witness ==
    /\ pc = "returned"
    /\ \E a, b \in BagToSet(done) :
           /\ a.net \in ErrorCauses /\ a.res.isdict
           /\ Answered(b) /\ b.res.success

\* C4: never more than 100 executions hold a connection of the connector,
\* also when more than 100 are dispatched; the others wait and none is
\* dropped
C4_ConnectorCap ==
    /\ Holding <= ConnectorLimit
    /\ pc = "gathering" =>
           BagCardinality(tasks) + BagCardinality(done) = Total
    /\ Returned => BagCardinality(done) = Total

C4_Witness ==
    /\ Total > ConnectorLimit
    /\ Holding = ConnectorLimit
    /\ Waiting > 0
    /\ done # EmptyBag

\* C5: when building the connector or the session fails, one top-level
\* error is reported, no result is surfaced, and the aggregator is not
\* called; no run reports more than one top-level error
C5_SetupFailureAborts ==
    /\ errors <= 1
    /\ pc = "failed" =>
           /\ errors = 1
           /\ calls = 0
           /\ results = EmptyBag
           /\ summary = NoSummary

C5_Witness == pc = "failed" /\ errors = 1 /\ tasks = EmptyBag

\* C6: with delay > 0, the response time of an answered request is the
\* time from issuing the request to the body being read, without the delay
C6_DelayNotMeasured ==
    \A d \in BagToSet(done) :
        (Answered(d) /\ config.delay > 0)
            => d.res.response_time = Some(d.dur)

\* C7: an execution that fails for a reason other than a timeout (DNS,
\* connection refused, malformed response, or a redirect answered while
\* follow_redirects is off) resolves to status "error", no response time,
\* success false and an error message; every "error" result has no
\* response time
C7_ErrorResults ==
    \A d \in BagToSet(done) :
        /\ (d.net \in ErrorCauses
               \/ (d.net = "redirect" /\ ~config.follow_redirects))
              => /\ d.res.status = ErrorStatus
                 /\ d.res.response_time = None
                 /\ ~d.res.success
                 /\ d.res.error # ""
        /\ d.res.status = ErrorStatus => d.res.response_time = None

\* C8: a timed-out execution resolves to status "timeout", response time
\* timeout * 1000, success false and error "Timeout"; the aggregator takes
\* it as valid (it is counted in the status distribution) and not as
\* successful
C8_TimeoutSentinel ==
    /\ \A d \in BagToSet(done) :
           d.net = "timeout" =>
               /\ d.res.isdict
               /\ d.res.status = TimeoutStatus
               /\ d.res.response_time = Some(config.timeout * 1000)
               /\ ~d.res.success
               /\ d.res.error = "Timeout"
    /\ (pc = "displayed" /\ \E d \in BagToSet(done) : d.net = "timeout") =>
           /\ summary.kind = "stats"
           /\ LET st == summary.stats[1]
                  n == SumCopies(done, {d \in BagToSet(done) : d.net = "timeout"})
              IN  /\ st.status_counts[1][TimeoutStatus] = n
                  /\ st.success_count + n <= st.total_requests

C8_Witness ==
    /\ pc = "displayed"
    /\ config.timeout = DefaultTimeout
    /\ \E d \in BagToSet(done) : d.net = "timeout"
    /\ \E d \in BagToSet(done) : Answered(d)

\* C9: when statistics are produced, success_rate is 100 * |successful| /
\* |results|, with successful the records with a response time and success
\* true, and |results| counting every collected entry (error records and
\* exception objects too); so it lies between 0 and 100
C9_SuccessRate ==
    (pc = "displayed" /\ summary.kind = "stats") =>
        LET rate == summary.stats[1].success_rate
            n == BagCardinality(results)
            ok == SumCopies(results, {r \in BagToSet(results) :
                    r.isdict /\ r.response_time # None /\ r.success})
        IN  /\ rate.den > 0
            /\ rate.num * n = 100 * ok * rate.den
            /\ 0 <= rate.num /\ rate.num <= 100 * rate.den

C9_Witness ==
    /\ pc = "displayed"
    /\ summary.kind = "stats"
    /\ \E a, b, c \in BagToSet(results) :
           /\ a.success
           /\ b.isdict /\ b.response_time = None
           /\ ~c.isdict
    /\ summary.stats[1].success_rate.num > 0

\* C10: when no entry has a response time, the aggregator reports "no data"
\* and computes no statistic; when some entry has one it produces the
\* statistics; it never raises
C10_NoData ==
    /\ calls > 0 => pc = "displayed"
    /\ pc = "displayed" =>
           LET valid == SumCopies(results, {r \in BagToSet(results) :
                          r.isdict /\ r.response_time # None})
           IN  /\ valid = 0 => summary = NoData /\ summary.stats = None
               /\ valid > 0 => summary.kind = "stats" /\ summary.stats # None

C10_Witness ==
    /\ pc = "displayed"
    /\ results # EmptyBag
    /\ summary = NoData

\* fractions with positive denominators
RatLe(a, b) == a.num * b.den <= b.num * a.den

Displayed == pc = "displayed" /\ summary.kind = "stats"

\* C11: for every non-empty latency sample the displayed figures satisfy
\* min <= median <= p95 <= p99 <= max, with p95 (p99) the sample maximum
\* when the sample has fewer than 20 (50) values
C11_PercentileOrder ==
    Displayed =>
        LET p == summary.stats[1].percentiles[1]
            n == SumCopies(results, {r \in BagToSet(results) :
                     r.isdict /\ r.response_time # None})
        IN  /\ RatLe(Rat(p.min, 1), p.p50)
            /\ RatLe(p.p50, p.p95)
            /\ RatLe(p.p95, p.p99)
            /\ RatLe(p.p99, Rat(p.max, 1))
            /\ n < 20 => p.p95 = Rat(p.max, 1)
            /\ n < 50 => p.p99 = Rat(p.max, 1)

RECURSIVE TimeSum(_)
\* the sum of the response times of the entries of `results` in the set S
TimeSum(S) ==
    IF S = {} THEN 0
    ELSE LET r == CHOOSE x \in S : TRUE
         IN  r.response_time[1] * CopiesIn(r, results) + TimeSum(S \ {r})

Timed == {r \in BagToSet(results) : r.isdict /\ r.response_time # None}
\* the mean of the valid response times, as the fraction SampleSum / SampleSize
SampleSum == TimeSum(Timed)
SampleSize == SumCopies(results, Timed)
Label == summary.stats[1].latency_insight

\* C12 as stated: mean > 3000 gives "very slow", a mean between 1000 and
\* 3000 "slow", a mean between 500 and 1000 "moderate", and a mean below
\* 500, and no other, "fast"; a mean of exactly 500 is not "fast"
C12_InsightAsStated ==
    Displayed =>
        /\ Label \in {Some("very slow"), Some("slow"), Some("moderate"),
                      Some("fast")}
        /\ SampleSum > 3000 * SampleSize => Label = Some("very slow")
        /\ (1000 * SampleSize < SampleSum /\ SampleSum < 3000 * SampleSize)
               => Label = Some("slow")
        /\ (500 * SampleSize < SampleSum /\ SampleSum < 1000 * SampleSize)
               => Label = Some("moderate")
        /\ Label = Some("fast") <=> SampleSum < 500 * SampleSize

\* C12 amended: the label is a function of the mean with the upper end of
\* each range included: mean > 3000 "very slow", 1000 < mean <= 3000
\* "slow", 500 < mean <= 1000 "moderate", mean <= 500 "fast"; so a mean of
\* exactly 500 is "fast", and one label is given for every mean
C12_InsightThresholds ==
    Displayed =>
        /\ Label = Some("very slow") <=> SampleSum > 3000 * SampleSize
        /\ Label = Some("slow") <=>
               (1000 * SampleSize < SampleSum /\ SampleSum <= 3000 * SampleSize)
        /\ Label = Some("moderate") <=>
               (500 * SampleSize < SampleSum /\ SampleSum <= 1000 * SampleSize)
        /\ Label = Some("fast") <=> SampleSum <= 500 * SampleSize

C12_Witness ==
    /\ Displayed
    /\ SampleSize = 2
    /\ SampleSum = 500 * SampleSize
    /\ Label = Some("fast")

====
